---------------------------- MODULE Spec2Model ----------------------------
(***************************************************************************)
(* gap-gone: the region edit and render engine.                            *)
(*                                                                         *)
(*   regionUtils.ts   mergeRegions, subtractRegion                         *)
(*   exportUtils.ts   getKeptRegions, exportAudio, bufferToWav             *)
(*   App.tsx          the editing session: audioBuffer, deletedRegions,    *)
(*                    isProcessing and the handlers that change them       *)
(*   WaveformRow.tsx  the drags that produce the handlers' arguments       *)
(*                                                                         *)
(* Times are in milliseconds (a region {start: 0.25, end: 1} is            *)
(* [start |-> 250, end |-> 1000]); the grids below keep every product      *)
(* time * sampleRate exact, as it is in the doubles of the program for     *)
(* these values.  A sample is an integer n standing for n / SampleDen.     *)
(* Playback (currentTime, isPlaying, the audio context) is not modelled.   *)
(***************************************************************************)
EXTENDS Integers, Sequences, FiniteSets, TLC

VARIABLES
    audioBuffer,      \* App.tsx: the decoded AudioBuffer, or Null
    deletedRegions,   \* App.tsx: the session's RegionSet
    isProcessing,     \* App.tsx: the "processing" overlay flag
    tasks,            \* deferred work in flight: decodes, timers, save dialogs
    lastCall,         \* history: the last call of a regionUtils function
    rendered,         \* history: what the last exportAudio call computed
    blob              \* the bytes of the last encoded WAV

vars == <<audioBuffer, deletedRegions, isProcessing, tasks, lastCall, rendered, blob>>

---------------------------------------------------------------------------
(* Bounds of the model.                                                    *)

\* the time grid of the region arguments: 0, TimeStep, ..., MaxTick * TimeStep
TimeStep == 250
MaxTick == 5

Times == {k * TimeStep : k \in 0..MaxTick}

\* a sample n stands for the float n / SampleDen
SampleDen == 4

\* the buffers handed to the encoder: up to MaxFrames frames, MaxChannels channels,
\* one of NumWaves waveforms
MaxFrames == 46
MaxChannels == 2
NumWaves == 2

\* the buffers handed to exportAudio: up to MaxExportFrames frames
MaxExportFrames == 6

\* the session: DragSteps + 1 pointer positions on a row, NumFiles decodable
\* files, at most MaxTasks pieces of deferred work in flight, rows 0..MaxRow
DragSteps == 1
NumFiles == 2
MaxTasks == 2
MaxRow == 0

Max(a, b) == IF a >= b THEN a ELSE b
Min(a, b) == IF a <= b THEN a ELSE b

---------------------------------------------------------------------------
(* The buffers of the model.                                                *)

\* sample of waveform w at channel c, frame f (0-based).  Waveform 0 is digital
\* silence; the others take values from -2.0 to 2.0, so that both clamps and
\* both scales of the encoder are met.
Wave(w, c, f) ==
    IF w = 0 THEN 0
    ELSE ((w * 7 + c * 5 + f * 3) % (4 * SampleDen + 1)) - 2 * SampleDen

MakeBuffer(rate, frames, chans, w) ==
    [sampleRate |-> rate, length |-> frames, numberOfChannels |-> chans,
     data |-> [c \in 1..chans |-> [f \in 1..frames |-> Wave(w, c - 1, f - 1)]]]

---------------------------------------------------------------------------
(* regionUtils.ts                                                          *)

Region(s, e) == [start |-> s, end |-> e]

\* Array.prototype.sort((a, b) => a.start - b.start): a stable sort by start.
\* InsertByStart puts x behind every element whose start is <= x.start.
RECURSIVE InsertByStart(_, _)
InsertByStart(sorted, x) ==
    IF sorted = <<>> THEN <<x>>
    ELSE IF Head(sorted).start <= x.start
         THEN <<Head(sorted)>> \o InsertByStart(Tail(sorted), x)
         ELSE <<x>> \o sorted

RECURSIVE SortByStart(_)
SortByStart(regions) ==
    IF regions = <<>> THEN <<>>
    ELSE InsertByStart(SortByStart(SubSeq(regions, 1, Len(regions) - 1)),
                       regions[Len(regions)])

\* the sweep of mergeRegions: the loop from index i on, merged so far
RECURSIVE MergeSweep(_, _, _)
MergeSweep(sorted, i, merged) ==
    IF i > Len(sorted) THEN merged
    ELSE LET current == sorted[i]
             last == merged[Len(merged)]
         IN IF current.start <= last.end
            THEN MergeSweep(sorted, i + 1,
                     [merged EXCEPT ![Len(merged)].end = Max(last.end, current.end)])
            ELSE MergeSweep(sorted, i + 1, Append(merged, current))

\* mergeRegions with "current.start < last.end": touching regions stay apart
RECURSIVE MergeSweepNoTouch(_, _, _)
MergeSweepNoTouch(sorted, i, merged) ==
    IF i > Len(sorted) THEN merged
    ELSE LET current == sorted[i]
             last == merged[Len(merged)]
         IN IF current.start < last.end
            THEN MergeSweepNoTouch(sorted, i + 1,
                     [merged EXCEPT ![Len(merged)].end = Max(last.end, current.end)])
            ELSE MergeSweepNoTouch(sorted, i + 1, Append(merged, current))

mergeRegionsNoTouch(regions, newRegion) ==
    LET sorted == SortByStart(Append(regions, newRegion))
    IN IF Len(sorted) = 0 THEN <<>>
       ELSE MergeSweepNoTouch(sorted, 2, <<sorted[1]>>)

\* mergeRegions with "last.end = current.end": the Math.max forgotten
RECURSIVE MergeSweepNoMax(_, _, _)
MergeSweepNoMax(sorted, i, merged) ==
    IF i > Len(sorted) THEN merged
    ELSE LET current == sorted[i]
             last == merged[Len(merged)]
         IN IF current.start <= last.end
            THEN MergeSweepNoMax(sorted, i + 1,
                     [merged EXCEPT ![Len(merged)].end = current.end])
            ELSE MergeSweepNoMax(sorted, i + 1, Append(merged, current))

mergeRegionsNoMax(regions, newRegion) ==
    LET sorted == SortByStart(Append(regions, newRegion))
    IN IF Len(sorted) = 0 THEN <<>>
       ELSE MergeSweepNoMax(sorted, 2, <<sorted[1]>>)

\* mergeRegions that returns after the sort: the sweep forgotten
mergeRegionsNoSweep(regions, newRegion) ==
    SortByStart(Append(regions, newRegion))

\* mergeRegions without ".sort(...)": the sweep runs over [...regions, newRegion]
mergeRegionsNoSort(regions, newRegion) ==
    LET sorted == Append(regions, newRegion)
    IN IF Len(sorted) = 0 THEN <<>>
       ELSE MergeSweep(sorted, 2, <<sorted[1]>>)

mergeRegions(regions, newRegion) ==
    LET sorted == SortByStart(Append(regions, newRegion))
    IN IF Len(sorted) = 0 THEN <<>>
       ELSE MergeSweep(sorted, 2, <<sorted[1]>>)

\* mergeRegions on the objects it is handed.  [...regions, newRegion] copies
\* the array, not the regions: the objects of a call are regions[1..n] and
\* newRegion (object n + 1), `sorted` and `merged` hold references to them
\* (indices into objs), and "last.end = ..." writes to the object itself.
RECURSIVE InsertRefByStart(_, _, _)
InsertRefByStart(objs, sorted, x) ==
    IF sorted = <<>> THEN <<x>>
    ELSE IF objs[Head(sorted)].start <= objs[x].start
         THEN <<Head(sorted)>> \o InsertRefByStart(objs, Tail(sorted), x)
         ELSE <<x>> \o sorted

RECURSIVE SortRefsByStart(_, _)
SortRefsByStart(objs, refs) ==
    IF refs = <<>> THEN <<>>
    ELSE InsertRefByStart(objs, SortRefsByStart(objs, SubSeq(refs, 1, Len(refs) - 1)),
                          refs[Len(refs)])

RECURSIVE MergeSweepInPlace(_, _, _, _)
MergeSweepInPlace(objs, sorted, i, merged) ==
    IF i > Len(sorted) THEN [objs |-> objs, merged |-> merged]
    ELSE LET current == sorted[i]
             last == merged[Len(merged)]
         IN IF objs[current].start <= objs[last].end
            THEN MergeSweepInPlace(
                     [objs EXCEPT ![last].end = Max(objs[last].end, objs[current].end)],
                     sorted, i + 1, merged)
            ELSE MergeSweepInPlace(objs, sorted, i + 1, Append(merged, current))

\* what a call leaves behind: the array it returns (result), the object each
\* returned region is (refs: an index into regions, 0 for newRegion), and the
\* values its arguments hold afterwards (regions, newRegion)
mergeRegionsInPlace(regions, newRegion) ==
    LET objs == Append(regions, newRegion)
        sorted == SortRefsByStart(objs, [k \in 1..Len(objs) |-> k])
        sweep == MergeSweepInPlace(objs, sorted, 2, <<sorted[1]>>)
    IN [result |-> [j \in 1..Len(sweep.merged) |-> sweep.objs[sweep.merged[j]]],
        refs |-> [j \in 1..Len(sweep.merged) |->
                     IF sweep.merged[j] <= Len(regions) THEN sweep.merged[j] ELSE 0],
        regions |-> SubSeq(sweep.objs, 1, Len(regions)),
        newRegion |-> sweep.objs[Len(objs)]]

\* the object each region returned by subtractRegion is: "result.push(r)"
\* passes the object of regions on (its index), a remainder is a new object (0)
RECURSIVE SubtractRefs(_, _, _, _)
SubtractRefs(regions, subtract, i, refs) ==
    IF i > Len(regions) THEN refs
    ELSE LET r == regions[i]
         IN IF subtract.end <= r.start \/ subtract.start >= r.end
            THEN SubtractRefs(regions, subtract, i + 1, Append(refs, i))
            ELSE LET left == IF r.start < subtract.start THEN <<0>> ELSE <<>>
                     right == IF r.end > subtract.end THEN <<0>> ELSE <<>>
                 IN SubtractRefs(regions, subtract, i + 1, refs \o left \o right)

\* the loop of subtractRegion from index i on, result so far
RECURSIVE SubtractLoop(_, _, _, _)
SubtractLoop(regions, subtract, i, result) ==
    IF i > Len(regions) THEN result
    ELSE LET r == regions[i]
         IN IF subtract.end <= r.start \/ subtract.start >= r.end
            THEN SubtractLoop(regions, subtract, i + 1, Append(result, r))
            ELSE LET left == IF r.start < subtract.start
                             THEN <<Region(r.start, subtract.start)>> ELSE <<>>
                     right == IF r.end > subtract.end
                              THEN <<Region(subtract.end, r.end)>> ELSE <<>>
                 IN SubtractLoop(regions, subtract, i + 1, result \o left \o right)

\* subtractRegion whose left remainder ends at subtract.end
RECURSIVE SubtractLoopLeftEnd(_, _, _, _)
SubtractLoopLeftEnd(regions, subtract, i, result) ==
    IF i > Len(regions) THEN result
    ELSE LET r == regions[i]
         IN IF subtract.end <= r.start \/ subtract.start >= r.end
            THEN SubtractLoopLeftEnd(regions, subtract, i + 1, Append(result, r))
            ELSE LET left == IF r.start < subtract.start
                             THEN <<Region(r.start, Min(subtract.end, r.end))>> ELSE <<>>
                     right == IF r.end > subtract.end
                              THEN <<Region(subtract.end, r.end)>> ELSE <<>>
                 IN SubtractLoopLeftEnd(regions, subtract, i + 1, result \o left \o right)

subtractRegionLeftEnd(regions, subtract) ==
    SubtractLoopLeftEnd(regions, subtract, 1, <<>>)

\* subtractRegion with "r.end > subtract.end + 1 step": a short right remainder is lost
RECURSIVE SubtractLoopNoRight(_, _, _, _)
SubtractLoopNoRight(regions, subtract, i, result) ==
    IF i > Len(regions) THEN result
    ELSE LET r == regions[i]
         IN IF subtract.end <= r.start \/ subtract.start >= r.end
            THEN SubtractLoopNoRight(regions, subtract, i + 1, Append(result, r))
            ELSE LET left == IF r.start < subtract.start
                             THEN <<Region(r.start, subtract.start)>> ELSE <<>>
                     right == IF r.end > subtract.end + TimeStep
                              THEN <<Region(subtract.end, r.end)>> ELSE <<>>
                 IN SubtractLoopNoRight(regions, subtract, i + 1, result \o left \o right)

subtractRegionNoRight(regions, subtract) ==
    SubtractLoopNoRight(regions, subtract, 1, <<>>)

\* subtractRegion that pushes the right remainder before the left one
RECURSIVE SubtractLoopRightFirst(_, _, _, _)
SubtractLoopRightFirst(regions, subtract, i, result) ==
    IF i > Len(regions) THEN result
    ELSE LET r == regions[i]
         IN IF subtract.end <= r.start \/ subtract.start >= r.end
            THEN SubtractLoopRightFirst(regions, subtract, i + 1, Append(result, r))
            ELSE LET left == IF r.start < subtract.start
                             THEN <<Region(r.start, subtract.start)>> ELSE <<>>
                     right == IF r.end > subtract.end
                              THEN <<Region(subtract.end, r.end)>> ELSE <<>>
                 IN SubtractLoopRightFirst(regions, subtract, i + 1,
                                           result \o right \o left)

subtractRegionRightFirst(regions, subtract) ==
    SubtractLoopRightFirst(regions, subtract, 1, <<>>)

subtractRegion(regions, subtract) ==
    SubtractLoop(regions, subtract, 1, <<>>)

---------------------------------------------------------------------------
(* exportUtils.ts: bufferToWav.  An AudioBuffer is                          *)
(* [sampleRate, length, numberOfChannels, data], data[c][f] the sample of   *)
(* channel c - 1 at frame f - 1.  The ArrayBuffer is a sequence of bytes,   *)
(* byte offset k at index k + 1.                                            *)

\* Float32Array element access: channels[i][pos], 0-based
getChannelData(abuffer, channel) == abuffer.data[channel + 1]

\* DataView.setUintN / setIntN(pos, data, true): the low `size` bytes of data,
\* little-endian; a negative 16-bit data is stored in two's complement (every
\* 32-bit field of the header is below 2^31 here)
WriteLE(view, pos, size, data) ==
    LET u == IF size = 2 THEN data % 65536 ELSE data
    IN [k \in 1..Len(view) |->
           IF pos + 1 <= k /\ k <= pos + size
           THEN (u \div (256 ^ (k - pos - 1))) % 256
           ELSE view[k]]

\* setUint16 without "pos += 2"
setUint16NoAdvance(st, data) == [view |-> WriteLE(st.view, st.pos, 2, data), pos |-> st.pos]

\* the nested helpers of bufferToWav: write at pos, advance pos
setUint16(st, data) == [view |-> WriteLE(st.view, st.pos, 2, data), pos |-> st.pos + 2]

setUint32(st, data) == [view |-> WriteLE(st.view, st.pos, 4, data), pos |-> st.pos + 4]

\* the size of the header: the 44 of "abuffer.length * numOfChan * 2 + 44"
\* and of "view.setInt16(44 + offset, ...)"
HeaderBytes == 44

\* x | 0 on a product x = num / den: truncation toward zero
TruncDiv(num, den) == IF num >= 0 THEN num \div den ELSE -((-num) \div den)

\* the two sample lines of the loop: clamp to [-1, 1], then
\* (0.5 + sample < 0 ? sample * 32768 : sample * 32767) | 0
Quantise(n) ==
    LET sample == Max(-SampleDen, Min(SampleDen, n))
    IN IF SampleDen + 2 * sample < 0
       THEN TruncDiv(sample * 32768, SampleDen)
       ELSE TruncDiv(sample * 32767, SampleDen)

\* "for (let i = 0; i < numOfChan; i++)": one frame, channel i on
RECURSIVE WavFrame(_, _, _, _, _)
WavFrame(abuffer, view, pos, offset, i) ==
    IF i >= abuffer.numberOfChannels THEN [view |-> view, offset |-> offset]
    ELSE WavFrame(abuffer,
                  WriteLE(view, HeaderBytes + offset, 2,
                          Quantise(getChannelData(abuffer, i)[pos + 1])),
                  pos, offset + 2, i + 1)

\* "while (pos < abuffer.length)": pos is the variable the header writes advanced
RECURSIVE WavLoop(_, _, _, _)
WavLoop(abuffer, view, pos, offset) ==
    IF ~(pos < abuffer.length) THEN view
    ELSE LET fr == WavFrame(abuffer, view, pos, offset, 0)
         IN WavLoop(abuffer, fr.view, pos + 1, fr.offset)

bufferToWav(abuffer) ==
    LET numOfChan == abuffer.numberOfChannels
        length == abuffer.length * numOfChan * 2 + HeaderBytes
        sampleRate == abuffer.sampleRate
        s0 == [view |-> [k \in 1..length |-> 0], pos |-> 0]
        s1 == setUint32(s0, 1179011410)                      \* 0x46464952 "RIFF"
        s2 == setUint32(s1, length - 8)
        s3 == setUint32(s2, 1163280727)                      \* 0x45564157 "WAVE"
        s4 == setUint32(s3, 544501094)                       \* 0x20746d66 "fmt "
        s5 == setUint32(s4, 16)
        s6 == setUint16(s5, 1)
        s7 == setUint16(s6, numOfChan)
        s8 == setUint32(s7, sampleRate)
        s9 == setUint32(s8, sampleRate * 2 * numOfChan)
        s10 == setUint16(s9, numOfChan * 2)
        s11 == setUint16(s10, 16)
        s12 == setUint32(s11, 1635017060)                    \* 0x61746164 "data"
        s13 == setUint32(s12, length - s12.pos - 4)
    IN WavLoop(abuffer, s13.view, s13.pos, 0)

\* what a decoder reads: an unsigned / signed little-endian field at offset pos
ReadUint(bytes, pos, size) ==
    IF size = 2 THEN bytes[pos + 1] + 256 * bytes[pos + 2]
    ELSE bytes[pos + 1] + 256 * bytes[pos + 2] + 65536 * bytes[pos + 3]
         + 16777216 * bytes[pos + 4]

ReadInt16(bytes, pos) ==
    LET u == ReadUint(bytes, pos, 2) IN IF u >= 32768 THEN u - 65536 ELSE u

---------------------------------------------------------------------------
(* exportUtils.ts: getKeptRegions, exportAudio.                             *)

\* AudioBuffer.duration = length / sampleRate, in milliseconds (the buffers of
\* the model have sample rates that make it a whole number)
Duration(buffer) == (buffer.length * 1000) \div buffer.sampleRate

\* Math.floor(time * sampleRate), time in milliseconds
ToSample(time, sampleRate) == (time * sampleRate) \div 1000

\* the loop of getKeptRegions from index i on
RECURSIVE KeptLoop(_, _, _, _)
KeptLoop(sorted, i, currentTime, kept) ==
    IF i > Len(sorted) THEN [currentTime |-> currentTime, kept |-> kept]
    ELSE LET region == sorted[i]
             kept2 == IF currentTime < region.start
                      THEN Append(kept, Region(currentTime, region.start))
                      ELSE kept
         IN KeptLoop(sorted, i + 1, Max(currentTime, region.end), kept2)

getKeptRegions(regions, totalDuration) ==
    LET sorted == SortByStart(regions)
        loop == KeptLoop(sorted, 1, 0, <<>>)
    IN IF loop.currentTime < totalDuration
       THEN Append(loop.kept, Region(loop.currentTime, totalDuration))
       ELSE loop.kept

\* "let totalSamples = 0; for (const region of keptRegions) ..."
RECURSIVE TotalSamples(_, _)
TotalSamples(keptRegions, sampleRate) ==
    IF keptRegions = <<>> THEN 0
    ELSE (ToSample(Head(keptRegions).end, sampleRate)
            - ToSample(Head(keptRegions).start, sampleRate))
         + TotalSamples(Tail(keptRegions), sampleRate)

\* TypedArray.prototype.slice(begin, end): a negative index counts from the
\* end, both are clamped to the array
Slice(arr, begin, end) ==
    LET len == Len(arr)
        from == IF begin < 0 THEN Max(len + begin, 0) ELSE Min(begin, len)
        to == IF end < 0 THEN Max(len + end, 0) ELSE Min(end, len)
    IN IF from < to THEN SubSeq(arr, from + 1, to) ELSE <<>>

\* TypedArray.prototype.set(source, offset): a RangeError when the source
\* does not fit behind offset
SetFits(target, source, offset) == offset + Len(source) <= Len(target)

TypedArraySet(target, source, offset) ==
    [k \in 1..Len(target) |->
        IF offset < k /\ k <= offset + Len(source) THEN source[k - offset] ELSE target[k]]

\* the inner loop with "inputData.slice(startSample, endSample + 1)": the end
\* of the slice taken as inclusive
RECURSIVE CopyLoopInclusiveEnd(_, _, _, _, _)
CopyLoopInclusiveEnd(inputData, keptRegions, sampleRate, i, st) ==
    IF i > Len(keptRegions) \/ st.threw THEN st
    ELSE LET region == keptRegions[i]
             startSample == ToSample(region.start, sampleRate)
             endSample == ToSample(region.end, sampleRate)
             length == endSample - startSample
         IN IF startSample < Len(inputData)
            THEN LET chunk == Slice(inputData, startSample, startSample + length + 1)
                     fitLength == Len(st.outputData) - st.offset
                     piece == IF st.offset + Len(chunk) <= Len(st.outputData)
                              THEN chunk
                              ELSE Slice(chunk, 0, fitLength)
                 IN IF SetFits(st.outputData, piece, st.offset)
                    THEN CopyLoopInclusiveEnd(inputData, keptRegions, sampleRate, i + 1,
                             [outputData |-> TypedArraySet(st.outputData, piece, st.offset),
                              offset |-> st.offset + Len(chunk),
                              threw |-> FALSE])
                    ELSE [st EXCEPT !.threw = TRUE]
            ELSE CopyLoopInclusiveEnd(inputData, keptRegions, sampleRate, i + 1, st)

\* the inner loop of exportAudio for one channel, from region i on;
\* st = [outputData, offset, threw]
RECURSIVE CopyLoop(_, _, _, _, _)
CopyLoop(inputData, keptRegions, sampleRate, i, st) ==
    IF i > Len(keptRegions) \/ st.threw THEN st
    ELSE LET region == keptRegions[i]
             startSample == ToSample(region.start, sampleRate)
             endSample == ToSample(region.end, sampleRate)
             length == endSample - startSample
         IN IF startSample < Len(inputData)
            THEN LET chunk == Slice(inputData, startSample, startSample + length)
                     fitLength == Len(st.outputData) - st.offset
                     piece == IF st.offset + Len(chunk) <= Len(st.outputData)
                              THEN chunk
                              ELSE Slice(chunk, 0, fitLength)
                 IN IF SetFits(st.outputData, piece, st.offset)
                    THEN CopyLoop(inputData, keptRegions, sampleRate, i + 1,
                             [outputData |-> TypedArraySet(st.outputData, piece, st.offset),
                              offset |-> st.offset + Len(chunk),
                              threw |-> FALSE])
                    ELSE [st EXCEPT !.threw = TRUE]
            ELSE CopyLoop(inputData, keptRegions, sampleRate, i + 1, st)

\* exportAudio up to the call of bufferToWav: what it computed (threw: an
\* exception left it; rangeError: it was the RangeError of outputData.set).
\* new AudioBuffer({length: 0, ...}) throws NotSupportedError (Web Audio: the
\* length of an AudioBuffer is at least 1), so nothing is rendered then.
Render(buffer, regions) ==
    LET keptRegions == getKeptRegions(regions, Duration(buffer))
        sampleRate == buffer.sampleRate
        numberOfChannels == buffer.numberOfChannels
        totalSamples == TotalSamples(keptRegions, sampleRate)
        chan == [c \in 1..numberOfChannels |->
                    CopyLoop(getChannelData(buffer, c - 1), keptRegions, sampleRate, 1,
                             [outputData |-> [k \in 1..totalSamples |-> 0],
                              offset |-> 0, threw |-> FALSE])]
    IN IF totalSamples <= 0
       THEN [called |-> TRUE, threw |-> TRUE, rangeError |-> FALSE,
             keptRegions |-> keptRegions,
             totalSamples |-> totalSamples, offsets |-> <<>>, output |-> <<>>]
       ELSE [called |-> TRUE,
             threw |-> \E c \in 1..numberOfChannels : chan[c].threw,
             rangeError |-> \E c \in 1..numberOfChannels : chan[c].threw,
             keptRegions |-> keptRegions,
             totalSamples |-> totalSamples,
             offsets |-> [c \in 1..numberOfChannels |-> chan[c].offset],
             output |-> [c \in 1..numberOfChannels |-> chan[c].outputData]]

\* the Blob exportAudio returns (<<>>: it threw)
exportAudio(buffer, regions) ==
    LET r == Render(buffer, regions)
    IN IF r.threw THEN <<>>
       ELSE bufferToWav([sampleRate |-> buffer.sampleRate,
                         length |-> r.totalSamples,
                         numberOfChannels |-> buffer.numberOfChannels,
                         data |-> r.output])

---------------------------------------------------------------------------
(* The session's initial state (the useState initial values of App.tsx).    *)

Null == [sampleRate |-> 0, length |-> 0, numberOfChannels |-> 0, data |-> <<>>]

\* a call of a regionUtils function: its arguments as they were handed over,
\* what it returned, and its arguments as they are when it has returned
NoCall == [op |-> "none", regions |-> <<>>, region |-> Region(0, 0), result |-> <<>>,
           regionsAfter |-> <<>>, regionAfter |-> Region(0, 0)]

NoRender == [called |-> FALSE, threw |-> FALSE, rangeError |-> FALSE, keptRegions |-> <<>>,
             totalSamples |-> 0, offsets |-> <<>>, output |-> <<>>]

SessionInit ==
    /\ audioBuffer = Null
    /\ deletedRegions = <<>>
    /\ isProcessing = FALSE
    /\ tasks = <<>>
    /\ lastCall = NoCall
    /\ rendered = NoRender
    /\ blob = <<>>

---------------------------------------------------------------------------
(* utils/audioAnalysis.ts: detectSilence(buffer), with its default          *)
(* configuration.  Channel 0 is cut into chunks of ChunkSize samples; a     *)
(* chunk is silent when its root-mean-square amplitude is below the         *)
(* threshold.                                                               *)

ChunkSize == 4096
\* threshold = 0.015 = ThresholdNum / 1000
ThresholdNum == 15
\* minDuration = 0.2 s and padding = 0.05 s, in milliseconds
MinDuration == 200
Padding == 50

\* the sum of the squares of samples[from..to], summed by halves
RECURSIVE SumSquares(_, _, _)
SumSquares(samples, from, to) ==
    IF from > to THEN 0
    ELSE IF from = to THEN samples[from] * samples[from]
    ELSE LET mid == (from + to) \div 2
         IN SumSquares(samples, from, mid) + SumSquares(samples, mid + 1, to)

\* rmse < threshold for chunk i (0-based), averaged over the samples the chunk
\* has: sum(n^2) / (count * SampleDen^2) < (ThresholdNum / 1000)^2, that is
\* sum(n^2) * 1000000 < ThresholdNum^2 * count * SampleDen^2, with the
\* 1000000 taken to the right-hand side to stay within the integers
ChunkIsSilent(samples, i) ==
    LET from == i * ChunkSize + 1
        to == Min((i + 1) * ChunkSize, Len(samples))
        count == to - from + 1
    IN SumSquares(samples, from, to)
           <= (ThresholdNum * ThresholdNum * count * SampleDen * SampleDen - 1) \div 1000000

\* the time offset of chunk i, in milliseconds
ChunkTime(i, sampleRate) == (i * ChunkSize * 1000) \div sampleRate

\* an interval is emitted if it lasts minDuration
Emit(found, start, end) ==
    IF end - start >= MinDuration THEN Append(found, Region(start, end)) ELSE found

\* the machine without the closing of a trailing interval at the buffer's end
RECURSIVE DetectLoopNoTail(_, _, _, _, _)
DetectLoopNoTail(buffer, i, inSilence, silenceStart, found) ==
    LET samples == getChannelData(buffer, 0)
    IN IF i * ChunkSize >= Len(samples)
       THEN found
       ELSE LET silent == ChunkIsSilent(samples, i)
                t == ChunkTime(i, buffer.sampleRate)
            IN IF silent /\ ~inSilence
               THEN DetectLoopNoTail(buffer, i + 1, TRUE, t, found)
               ELSE IF ~silent /\ inSilence
                    THEN DetectLoopNoTail(buffer, i + 1, FALSE, silenceStart,
                                          Emit(found, silenceStart, t))
                    ELSE DetectLoopNoTail(buffer, i + 1, inSilence, silenceStart, found)

\* the Voiced / Silent machine from chunk i on
RECURSIVE DetectLoop(_, _, _, _, _)
DetectLoop(buffer, i, inSilence, silenceStart, found) ==
    LET samples == getChannelData(buffer, 0)
    IN IF i * ChunkSize >= Len(samples)
       THEN IF inSilence THEN Emit(found, silenceStart, Duration(buffer)) ELSE found
       ELSE LET silent == ChunkIsSilent(samples, i)
                t == ChunkTime(i, buffer.sampleRate)
            IN IF silent /\ ~inSilence
               THEN DetectLoop(buffer, i + 1, TRUE, t, found)
               ELSE IF ~silent /\ inSilence
                    THEN DetectLoop(buffer, i + 1, FALSE, silenceStart,
                                    Emit(found, silenceStart, t))
                    ELSE DetectLoop(buffer, i + 1, inSilence, silenceStart, found)

\* the padding: shrink both ends, drop what is empty or inverted
RECURSIVE Shrink(_)
Shrink(found) ==
    IF found = <<>> THEN <<>>
    ELSE LET r == Region(Head(found).start + Padding, Head(found).end - Padding)
         IN (IF r.end <= r.start THEN <<>> ELSE <<r>>) \o Shrink(Tail(found))

detectSilence(buffer) == Shrink(DetectLoop(buffer, 0, FALSE, 0, <<>>))

---------------------------------------------------------------------------
(* WaveformScore.tsx and WaveformRow.tsx: the rows and the drags.           *)

\* secondsPerRow = 10, in milliseconds
RowMillis == 10000
\* width = 1000 pixels
RowWidth == 1000

\* Math.ceil(duration / secondsPerRow)
RowCount(buffer) == (Duration(buffer) + RowMillis - 1) \div RowMillis

RowStart(i) == i * RowMillis
RowEnd(buffer, i) == Min((i + 1) * RowMillis, Duration(buffer))

\* the pointer positions of the model, in pixels from the left of the row
DragXs == {k * (RowWidth \div DragSteps) : k \in 0..DragSteps}

\* startTime + (x / width) * duration
DragTime(buffer, row, x) ==
    RowStart(row) + (x * (RowEnd(buffer, row) - RowStart(row))) \div RowWidth

\* handleMouseUp / handleMouseLeave: the bounds handed to onRegionAdd or
\* onRegionRemove for a drag from downX to upX
DragRegion(buffer, row, downX, upX) ==
    Region(DragTime(buffer, row, Min(downX, upX)), DragTime(buffer, row, Max(downX, upX)))

---------------------------------------------------------------------------
(* App.tsx: the editing session.  The arrays of the handlers are modelled   *)
(* by value.  A task is deferred work in flight:                            *)
(*   decode   handleFileUpload behind its awaits, for file `file`           *)
(*   autocut  the timer of handleAutoCut, with the audioBuffer it captured  *)
(*   export   the timer of handleExport, with the audioBuffer and the       *)
(*            deletedRegions it captured                                    *)
(*   save     the timer callback of handleExport awaiting saveToDisk        *)
(* The deletedRegions an export captured is the array of that render: its   *)
(* regions are objects the later arrays of the session share until a        *)
(* handler drops them, and mergeRegions writes to them.  refs[k] is the     *)
(* index in the present deletedRegions of the object regions[k], 0 when it  *)
(* is in it no longer.                                                      *)

\* the files of the model: file f decodes to FileBuffer(f); CorruptFile fails
CorruptFile == 0

FileBuffer(f) ==
    IF f = 1 THEN MakeBuffer(4, 8, 1, 0)      \* 2 s, mono, digital silence
    ELSE MakeBuffer(8, 8, 2, f)                \* 1 s, stereo, loud

Files == {CorruptFile} \cup 1..NumFiles

Task(kind, file, buffer, regions, refs) ==
    [kind |-> kind, file |-> file, buffer |-> buffer, regions |-> regions, refs |-> refs]

\* the index of the object x in an array of references, 0 when absent
IndexOf(refs, x) ==
    IF x # 0 /\ \E j \in 1..Len(refs) : refs[j] = x
    THEN CHOOSE j \in 1..Len(refs) : refs[j] = x
    ELSE 0

\* the captured arrays when an updater has run: `after` are the values of the
\* objects of the previous deletedRegions, refs[j] the previous index of the
\* object at j in the new deletedRegions (0: a new object)
Captured(after, refs) ==
    [i \in 1..Len(tasks) |->
        [tasks[i] EXCEPT
            !.regions = [k \in 1..Len(tasks[i].regions) |->
                            IF tasks[i].refs[k] # 0 THEN after[tasks[i].refs[k]]
                            ELSE tasks[i].regions[k]],
            !.refs = [k \in 1..Len(tasks[i].refs) |-> IndexOf(refs, tasks[i].refs[k])]]]

Remove(seq, i) == SubSeq(seq, 1, i - 1) \o SubSeq(seq, i + 1, Len(seq))

\* timers of equal delay fire in the order they were set
IsTimer(t) == t.kind \in {"autocut", "export"}
FirstTimer(i) == IsTimer(tasks[i]) /\ \A j \in 1..(i - 1) : ~IsTimer(tasks[j])

\* handleFileUpload up to its first await
handleFileUpload(file) ==
    /\ Len(tasks) < MaxTasks
    /\ isProcessing' = TRUE
    /\ tasks' = Append(tasks, Task("decode", file, Null, <<>>, <<>>))
    /\ UNCHANGED <<audioBuffer, deletedRegions, lastCall, rendered, blob>>

\* handleFileUpload behind decodeAudioData: try / catch / finally
DecodeDone(i) ==
    /\ i \in 1..Len(tasks)
    /\ tasks[i].kind = "decode"
    /\ audioBuffer' = IF tasks[i].file = CorruptFile THEN audioBuffer
                      ELSE FileBuffer(tasks[i].file)
    /\ isProcessing' = FALSE
    /\ tasks' = Remove(tasks, i)
    /\ UNCHANGED <<deletedRegions, lastCall, rendered, blob>>

handleRegionAdd(start, end) ==
    /\ deletedRegions' = mergeRegions(deletedRegions, Region(start, end))
    /\ LET call == mergeRegionsInPlace(deletedRegions, Region(start, end))
       IN tasks' = Captured(call.regions, call.refs)
    /\ UNCHANGED <<audioBuffer, isProcessing, lastCall, rendered, blob>>

\* prev.filter((r) => !(r.start === start && r.end === end))
RECURSIVE FilterExact(_, _, _)
FilterExact(prev, start, end) ==
    IF prev = <<>> THEN <<>>
    ELSE (IF ~(Head(prev).start = start /\ Head(prev).end = end)
          THEN <<Head(prev)>> ELSE <<>>)
         \o FilterExact(Tail(prev), start, end)

\* the references prev.filter keeps
RECURSIVE FilterExactRefs(_, _, _, _)
FilterExactRefs(prev, refs, start, end) ==
    IF prev = <<>> THEN <<>>
    ELSE (IF ~(Head(prev).start = start /\ Head(prev).end = end)
          THEN <<Head(refs)>> ELSE <<>>)
         \o FilterExactRefs(Tail(prev), Tail(refs), start, end)

\* both queued updaters, in order
handleRegionRemove(start, end) ==
    /\ deletedRegions' =
           FilterExact(subtractRegion(deletedRegions, Region(start, end)), start, end)
    /\ tasks' = Captured(deletedRegions,
                   FilterExactRefs(subtractRegion(deletedRegions, Region(start, end)),
                                   SubtractRefs(deletedRegions, Region(start, end), 1, <<>>),
                                   start, end))
    /\ UNCHANGED <<audioBuffer, isProcessing, lastCall, rendered, blob>>

\* a right-button drag on a row, committed by handleMouseUp or handleMouseLeave
DragAdd(row, downX, upX) ==
    /\ audioBuffer # Null
    /\ row \in 0..(RowCount(audioBuffer) - 1)
    /\ LET r == DragRegion(audioBuffer, row, downX, upX)
       IN handleRegionAdd(r.start, r.end)

\* a middle-button drag
DragRemove(row, downX, upX) ==
    /\ audioBuffer # Null
    /\ row \in 0..(RowCount(audioBuffer) - 1)
    /\ LET r == DragRegion(audioBuffer, row, downX, upX)
       IN handleRegionRemove(r.start, r.end)

\* handleAutoCut up to setTimeout
handleAutoCut ==
    /\ audioBuffer # Null
    /\ Len(tasks) < MaxTasks
    /\ isProcessing' = TRUE
    /\ tasks' = Append(tasks, Task("autocut", CorruptFile, audioBuffer, <<>>, <<>>))
    /\ UNCHANGED <<audioBuffer, deletedRegions, lastCall, rendered, blob>>

\* silentRegions.forEach((r) => { newRegions = mergeRegions(newRegions, r) })
RECURSIVE MergeAll(_, _)
MergeAll(newRegions, silentRegions) ==
    IF silentRegions = <<>> THEN newRegions
    ELSE MergeAll(mergeRegions(newRegions, Head(silentRegions)), Tail(silentRegions))

\* the same loop on the objects of prev: st.result is newRegions, st.refs[j]
\* the index in prev of the object newRegions[j] is (0: not of prev), and
\* st.regions the values the objects of prev hold
RECURSIVE MergeAllInPlace(_, _)
MergeAllInPlace(st, silentRegions) ==
    IF silentRegions = <<>> THEN st
    ELSE LET call == mergeRegionsInPlace(st.result, Head(silentRegions))
         IN MergeAllInPlace(
                [result |-> call.result,
                 refs |-> [j \in 1..Len(call.refs) |->
                              IF call.refs[j] = 0 THEN 0 ELSE st.refs[call.refs[j]]],
                 regions |-> [k \in 1..Len(st.regions) |->
                                 IF IndexOf(st.refs, k) # 0
                                 THEN call.regions[IndexOf(st.refs, k)]
                                 ELSE st.regions[k]]],
                Tail(silentRegions))

\* the timer callback of handleAutoCut
AutoCutTimer(i) ==
    /\ i \in 1..Len(tasks)
    /\ tasks[i].kind = "autocut"
    /\ FirstTimer(i)
    /\ LET silentRegions == detectSilence(tasks[i].buffer)
           all == MergeAllInPlace([result |-> deletedRegions,
                                   refs |-> [k \in 1..Len(deletedRegions) |-> k],
                                   regions |-> deletedRegions],
                                  silentRegions)
       IN /\ deletedRegions' = IF Len(silentRegions) > 0
                               THEN MergeAll(deletedRegions, silentRegions)
                               ELSE deletedRegions
          /\ tasks' = Remove(Captured(all.regions, all.refs), i)
    /\ isProcessing' = FALSE
    /\ UNCHANGED <<audioBuffer, lastCall, rendered, blob>>

\* handleExport up to setTimeout
handleExport ==
    /\ audioBuffer # Null
    /\ Len(tasks) < MaxTasks
    /\ isProcessing' = TRUE
    /\ tasks' = Append(tasks, Task("export", CorruptFile, audioBuffer, deletedRegions,
                                   [k \in 1..Len(deletedRegions) |-> k]))
    /\ UNCHANGED <<audioBuffer, deletedRegions, lastCall, rendered, blob>>

\* the timer callback of handleExport up to "await saveToDisk": exportAudio
\* threw (catch, finally), or the save is awaited
ExportTimer(i) ==
    /\ i \in 1..Len(tasks)
    /\ tasks[i].kind = "export"
    /\ FirstTimer(i)
    /\ IF Render(tasks[i].buffer, tasks[i].regions).threw
       THEN /\ isProcessing' = FALSE
            /\ tasks' = Remove(tasks, i)
       ELSE /\ isProcessing' = isProcessing
            /\ tasks' = [tasks EXCEPT ![i] = Task("save", CorruptFile, Null, <<>>, <<>>)]
    /\ UNCHANGED <<audioBuffer, deletedRegions, lastCall, rendered, blob>>

\* saveToDisk settled (saved, cancelled, or failed and the browser download
\* took over): finally
SaveDone(i) ==
    /\ i \in 1..Len(tasks)
    /\ tasks[i].kind = "save"
    /\ isProcessing' = FALSE
    /\ tasks' = Remove(tasks, i)
    /\ UNCHANGED <<audioBuffer, deletedRegions, lastCall, rendered, blob>>

Next ==
    \/ \E f \in Files : handleFileUpload(f)
    \/ \E i \in 1..MaxTasks : DecodeDone(i)
    \/ \E row \in 0..MaxRow, downX \in DragXs, upX \in DragXs : DragAdd(row, downX, upX)
    \/ \E row \in 0..MaxRow, downX \in DragXs, upX \in DragXs : DragRemove(row, downX, upX)
    \/ handleAutoCut
    \/ \E i \in 1..MaxTasks : AutoCutTimer(i)
    \/ handleExport
    \/ \E i \in 1..MaxTasks : ExportTimer(i)
    \/ \E i \in 1..MaxTasks : SaveDone(i)

Spec == SessionInit /\ [][Next]_vars

---------------------------------------------------------------------------
(* The RegionSet operations called one after another, from the empty set.  *)

\* the regions a caller passes: 0 <= start < end, on the grid
ValidRegions == {r \in [start : Times, end : Times] : r.start < r.end}

MergeCall(r) ==
    /\ deletedRegions' = mergeRegions(deletedRegions, r)
    /\ lastCall' = [op |-> "merge", regions |-> deletedRegions, region |-> r,
                    result |-> mergeRegions(deletedRegions, r),
                    regionsAfter |-> mergeRegionsInPlace(deletedRegions, r).regions,
                    regionAfter |-> mergeRegionsInPlace(deletedRegions, r).newRegion]
    /\ UNCHANGED <<audioBuffer, isProcessing, tasks, rendered, blob>>

SubtractCall(r) ==
    /\ deletedRegions' = subtractRegion(deletedRegions, r)
    /\ lastCall' = [op |-> "subtract", regions |-> deletedRegions, region |-> r,
                    result |-> subtractRegion(deletedRegions, r),
                    regionsAfter |-> deletedRegions,
                    regionAfter |-> r]
    /\ UNCHANGED <<audioBuffer, isProcessing, tasks, rendered, blob>>

NextMerge == \E r \in ValidRegions : MergeCall(r)

SpecMerge == SessionInit /\ [][NextMerge]_vars

NextRegion ==
    \/ \E r \in ValidRegions : MergeCall(r)
    \/ \E r \in ValidRegions : SubtractCall(r)

SpecRegion == SessionInit /\ [][NextRegion]_vars

\* the regions a caller can pass when nothing validates them: a drag without
\* movement gives start = end
AnyRegions == {r \in [start : Times, end : Times] : r.start <= r.end}

NextMergeAny == \E r \in AnyRegions : MergeCall(r)

SpecMergeAny == SessionInit /\ [][NextMergeAny]_vars

---------------------------------------------------------------------------
(* detectSilence applied to a buffer.                                       *)

\* the buffers handed to the detector: up to MaxChunks whole chunks, and
\* lengths up to DetectSlack frames around each multiple of the chunk size
\* and around the shortest length of the all-zero property
MaxChunks == 2
DetectSlack == 2

DetectLengths ==
    {n \in {k * ChunkSize + d : k \in 0..MaxChunks, d \in (-DetectSlack)..DetectSlack}
            \cup {MinDuration + 2 * Padding + d : d \in (-DetectSlack)..DetectSlack} :
        n >= 1}

\* sample rates whose frame lasts a whole number of milliseconds
DetectRates == {4, 8, 1000}

\* waveform 0 is all-zero, waveform 1 is loud
DetectBuffers ==
    {MakeBuffer(rate, frames, chans, w) :
        rate \in DetectRates, frames \in DetectLengths, chans \in 1..MaxChannels,
        w \in 0..1}

InitDetect ==
    /\ audioBuffer \in DetectBuffers
    /\ deletedRegions = <<>>
    /\ isProcessing = FALSE
    /\ tasks = <<>>
    /\ lastCall = NoCall
    /\ rendered = NoRender
    /\ blob = <<>>

Detect ==
    /\ lastCall.op = "none"
    /\ lastCall' = [NoCall EXCEPT !.op = "detect", !.result = detectSilence(audioBuffer)]
    /\ UNCHANGED <<audioBuffer, deletedRegions, isProcessing, tasks, rendered, blob>>

NextDetect == Detect

SpecDetect == InitDetect /\ [][NextDetect]_vars

---------------------------------------------------------------------------
(* Properties of RegionSets.                                               *)

\* sorted by start ascending
Sorted(S) == \A i \in 1..Len(S) : \A j \in i..Len(S) : S[i].start <= S[j].start

\* consecutive regions neither overlap nor touch
Separated(S) == \A i \in 1..(Len(S) - 1) : S[i].end < S[i + 1].start

\* every region is a Region of the data model: 0 <= start < end
NonEmpty(S) == \A i \in 1..Len(S) : 0 <= S[i].start /\ S[i].start < S[i].end

\* The time covered by S, as the grid points t whose cell [t, t + TimeStep)
\* lies in a region; every bound of a region is a grid point, so a cell is
\* covered whole or not at all.
Covered(S) == {t \in Times : \E i \in 1..Len(S) : S[i].start <= t /\ t < S[i].end}

\* the number of maximal runs of covered cells
Runs(C) == Cardinality({t \in C : (t - TimeStep) \notin C})

Overlaps(q, r) == ~(r.end <= q.start \/ r.start >= q.end)

InSeq(x, S) == \E i \in 1..Len(S) : S[i] = x

\* the invariants of a RegionSet, and every region a Region
IsRegionSet(S) == Sorted(S) /\ Separated(S) /\ NonEmpty(S)

---------------------------------------------------------------------------
\* C1: starting from the empty set, after any sequence of merges of regions
\* with 0 <= start < end, the set is sorted by start and every consecutive
\* pair satisfies regions[i].end < regions[i+1].start.
C1_MergeInvariant == Sorted(deletedRegions) /\ Separated(deletedRegions)

\* a merge that coalesced regions and left another one apart
C1_Witness ==
    /\ lastCall.op = "merge"
    /\ Len(lastCall.result) < Len(lastCall.regions)
    /\ Len(deletedRegions) >= 2

\* C4: no region of subtract(S, r) intersects r: every resulting region q
\* has q.end <= r.start or q.start >= r.end.
C4_SubtractDisjoint ==
    lastCall.op = "subtract" =>
        \A i \in 1..Len(lastCall.result) :
            \/ lastCall.result[i].end <= lastCall.region.start
            \/ lastCall.result[i].start >= lastCall.region.end

\* a subtract that cut a region in two around r
C4_Witness ==
    /\ lastCall.op = "subtract"
    /\ \E i \in 1..Len(lastCall.regions) :
           /\ lastCall.regions[i].start < lastCall.region.start
           /\ lastCall.region.end < lastCall.regions[i].end
    /\ Len(lastCall.result) = Len(lastCall.regions) + 1

\* C9: merge(S, r) is the smallest sorted, non-overlapping set covering
\* exactly the union of S and [r.start, r.end): nothing outside the union is
\* covered, nothing inside is missing, and no two output regions touch or
\* overlap (one region per maximal run of covered time).
C9_MergeIsUnion ==
    lastCall.op = "merge" =>
        /\ Covered(lastCall.result) = Covered(lastCall.regions) \cup Covered(<<lastCall.region>>)
        /\ Sorted(lastCall.result)
        /\ Separated(lastCall.result)
        /\ NonEmpty(lastCall.result)
        /\ Len(lastCall.result) = Runs(Covered(lastCall.result))

\* a merge of a region lying inside an existing one, next to a second region
C9_Witness ==
    /\ lastCall.op = "merge"
    /\ Len(lastCall.regions) >= 2
    /\ \E i \in 1..Len(lastCall.regions) :
           /\ lastCall.regions[i].start < lastCall.region.start
           /\ lastCall.region.end < lastCall.regions[i].end

\* C10: subtract(S, r) covers exactly the time of S minus [r.start, r.end):
\* a region not overlapping r passes through unchanged, an overlapping
\* region q leaves [q.start, r.start) iff q.start < r.start and
\* [r.end, q.end) iff q.end > r.end, and a region inside r leaves nothing.
C10_SubtractIsDifference ==
    lastCall.op = "subtract" =>
        LET S == lastCall.regions
            r == lastCall.region
            R == lastCall.result
            Pieces(q) ==
                IF ~Overlaps(q, r) THEN {q}
                ELSE (IF q.start < r.start THEN {Region(q.start, r.start)} ELSE {})
                     \cup (IF q.end > r.end THEN {Region(r.end, q.end)} ELSE {})
        IN /\ Covered(R) = Covered(S) \ Covered(<<r>>)
           /\ \A i \in 1..Len(S) : \A p \in Pieces(S[i]) : InSeq(p, R)
           /\ \A j \in 1..Len(R) : \E i \in 1..Len(S) : R[j] \in Pieces(S[i])
           /\ \A i \in 1..Len(S) :
                  (r.start <= S[i].start /\ S[i].end <= r.end) => Pieces(S[i]) = {}
           /\ Len(R) = Cardinality(UNION {Pieces(S[i]) : i \in 1..Len(S)})

\* a subtract that swallowed one region whole and shortened another
C10_Witness ==
    /\ lastCall.op = "subtract"
    /\ \E i \in 1..Len(lastCall.regions) :
           /\ lastCall.region.start <= lastCall.regions[i].start
           /\ lastCall.regions[i].end <= lastCall.region.end
    /\ \E i \in 1..Len(lastCall.regions) :
           /\ Overlaps(lastCall.regions[i], lastCall.region)
           /\ lastCall.regions[i].end > lastCall.region.end
    /\ Len(lastCall.result) = Len(lastCall.regions) - 1

\* C11: merge is idempotent: for every valid S and region r with
\* start < end, merge(merge(S, r), r) equals merge(S, r) region for region.
\* (the second merge is given r as the caller wrote it, and r as the first
\* call left it)
C11_MergeIdempotent ==
    lastCall.op = "merge" =>
        /\ mergeRegions(lastCall.result, lastCall.region) = lastCall.result
        /\ mergeRegions(lastCall.result, lastCall.regionAfter) = lastCall.result

\* a merge of r that joined two regions of S, a third one staying apart: the
\* second merge of r meets a region that is wider than r on both sides
C11_Witness ==
    /\ lastCall.op = "merge"
    /\ Len(lastCall.regions) >= 3
    /\ Len(lastCall.result) = Len(lastCall.regions) - 1
    /\ \E i \in 1..Len(lastCall.result) :
           /\ lastCall.result[i].start < lastCall.region.start
           /\ lastCall.region.end < lastCall.result[i].end

\* C12: merge(S, r) with a degenerate region r.start = r.end is a no-op: the
\* returned set equals S, for every valid S and every position of r (inside
\* a region, at a region boundary, or in a gap).
C12_DegenerateMergeIsNoOp ==
    (/\ lastCall.op = "merge"
     /\ lastCall.region.start = lastCall.region.end
     /\ IsRegionSet(lastCall.regions))
        => lastCall.result = lastCall.regions

\* C14: merge and subtract are pure: when merge(S, r) or subtract(S, r) has
\* returned, S (its length and every region's start and end) and r hold the
\* values they had before the call, so that the same call again gives the
\* same result.
C14_CallsArePure ==
    lastCall.op \in {"merge", "subtract"} =>
        /\ lastCall.regionsAfter = lastCall.regions
        /\ lastCall.regionAfter = lastCall.region
        /\ lastCall.op = "merge" =>
               mergeRegions(lastCall.regionsAfter, lastCall.regionAfter) = lastCall.result
        /\ lastCall.op = "subtract" =>
               subtractRegion(lastCall.regionsAfter, lastCall.regionAfter) = lastCall.result

\* the region of S that the region q of a result lies in
SourceIndex(S, q) ==
    CHOOSE i \in 1..Len(S) : S[i].start <= q.start /\ q.end <= S[i].end

\* C15: for any valid S and any r with start < end, subtract(S, r) is a valid
\* RegionSet as it is returned: its regions are in the order of the regions
\* they come from, sorted by start, every consecutive pair has
\* end < next start, and every fragment has start < end.
C15_SubtractKeepsRegionSet ==
    (lastCall.op = "subtract" /\ IsRegionSet(lastCall.regions)) =>
        LET S == lastCall.regions
            R == lastCall.result
        IN /\ IsRegionSet(R)
           /\ \A j \in 1..Len(R) :
                  \E i \in 1..Len(S) : S[i].start <= R[j].start /\ R[j].end <= S[i].end
           /\ \A j \in 1..Len(R) : \A k \in j..Len(R) :
                  SourceIndex(S, R[j]) <= SourceIndex(S, R[k])

\* a subtract that left both remainders of the second region, behind a
\* first region that passed through
C15_Witness ==
    /\ lastCall.op = "subtract"
    /\ Len(lastCall.regions) = 2
    /\ Len(lastCall.result) = 3
    /\ lastCall.result[1] = lastCall.regions[1]
    /\ lastCall.result[2].start = lastCall.regions[2].start
    /\ lastCall.result[3].end = lastCall.regions[2].end

\* C18: merge is order-independent: for every valid S and regions a, b with
\* start < end, merge(merge(S, a), b) equals merge(merge(S, b), a), and both
\* cover exactly the union of S, a and b (so does the loop of handleAutoCut
\* over <<a, b>> and over <<b, a>>).
C18_MergeOrderIndependent ==
    lastCall.op = "merge" =>
        \A b \in ValidRegions :
            LET S == lastCall.regions
                a == lastCall.region
                ab == mergeRegions(lastCall.result, b)
                ba == mergeRegions(mergeRegions(S, b), a)
            IN /\ ab = ba
               /\ Covered(ab) = Covered(S) \cup Covered(<<a>>) \cup Covered(<<b>>)
               /\ Covered(ba) = Covered(S) \cup Covered(<<a>>) \cup Covered(<<b>>)
               /\ MergeAll(S, <<a, b>>) = MergeAll(S, <<b, a>>)
               /\ LET c1 == mergeRegionsInPlace(S, a)
                      c2 == mergeRegionsInPlace(c1.result, b)
                      \* S, a and b as the evaluation of merge(merge(S, a), b)
                      \* left them
                      S2 == [k \in 1..Len(S) |->
                                IF IndexOf(c1.refs, k) # 0
                                THEN c2.regions[IndexOf(c1.refs, k)]
                                ELSE c1.regions[k]]
                      a2 == IF \E j \in 1..Len(c1.refs) : c1.refs[j] = 0
                            THEN c2.regions[CHOOSE j \in 1..Len(c1.refs) : c1.refs[j] = 0]
                            ELSE c1.newRegion
                      b2 == c2.newRegion
                  IN mergeRegions(mergeRegions(S2, b2), a2) = ab

\* a merge of a region a into the gap between two regions of S, touching
\* neither: a later b can join any two of the three, or all of them
C18_Witness ==
    /\ lastCall.op = "merge"
    /\ Len(lastCall.regions) = 2
    /\ Len(lastCall.result) = 3
    /\ lastCall.result[2] = lastCall.region

---------------------------------------------------------------------------
(* The encoder applied to a buffer.                                         *)

SampleRates == {8, 44100}

WavBuffers ==
    {MakeBuffer(rate, frames, chans, w) :
        rate \in SampleRates, frames \in 1..MaxFrames, chans \in 1..MaxChannels,
        w \in 1..NumWaves}

InitWav ==
    /\ audioBuffer \in WavBuffers
    /\ deletedRegions = <<>>
    /\ isProcessing = FALSE
    /\ tasks = <<>>
    /\ lastCall = NoCall
    /\ rendered = NoRender
    /\ blob = <<>>

Encode ==
    /\ blob = <<>>
    /\ blob' = bufferToWav(audioBuffer)
    /\ UNCHANGED <<audioBuffer, deletedRegions, isProcessing, tasks, lastCall, rendered>>

NextWav == Encode

SpecWav == InitWav /\ [][NextWav]_vars

\* C2: for every frame f and channel c of an encoded buffer of N frames and
\* C channels, the signed 16-bit little-endian value at byte offset
\* 44 + 2*(f*C + c) is the quantised sample of channel c at frame f, and the
\* header reads back the same N, C and sample rate.
C2_EncodeRoundTrip ==
    blob # <<>> =>
        LET C == ReadUint(blob, 22, 2)
            R == ReadUint(blob, 24, 4)
            N == ReadUint(blob, 40, 4) \div (2 * C)
        IN /\ C = audioBuffer.numberOfChannels
           /\ R = audioBuffer.sampleRate
           /\ N = audioBuffer.length
           /\ \A f \in 0..(audioBuffer.length - 1) :
                  \A c \in 0..(audioBuffer.numberOfChannels - 1) :
                      ReadInt16(blob, HeaderBytes + 2 * (f * C + c))
                          = Quantise(getChannelData(audioBuffer, c)[f + 1])

\* the conversion of a sample n / SampleDen as section 4.4 states it: clamp to
\* [-1, 1], negative values times 32768, the others times 32767, truncate
ClampedScaled(n) ==
    LET sample == Max(-SampleDen, Min(SampleDen, n))
    IN IF sample < 0
       THEN TruncDiv(sample * 32768, SampleDen)
       ELSE TruncDiv(sample * 32767, SampleDen)

\* C13: in encode each sample is clamped to [-1, 1], every negative value
\* (all of [-1, 0)) is scaled by 32768 and every non-negative value by 32767,
\* then truncated toward zero; the value stored is within -32768..32767,
\* with -1.0 -> -32768 and +1.0 -> 32767.
C13_SampleConversion ==
    blob # <<>> =>
        \A c \in 0..(audioBuffer.numberOfChannels - 1) :
            \A f \in 1..audioBuffer.length :
                LET sample == getChannelData(audioBuffer, c)[f]
                IN /\ Quantise(sample) = ClampedScaled(sample)
                   /\ Quantise(sample) \in -32768..32767
                   /\ sample <= -SampleDen => Quantise(sample) = -32768
                   /\ sample >= SampleDen => Quantise(sample) = 32767

\* C16: the encoding of N frames, C channels at sample rate R is
\* 44 + N*C*2 bytes long, and its header holds RIFF size = length - 8,
\* byte rate = R*C*2, block align = C*2, bits per sample = 16 and data
\* chunk length = N*C*2.
C16_WavHeader ==
    blob # <<>> =>
        LET N == audioBuffer.length
            C == audioBuffer.numberOfChannels
            R == audioBuffer.sampleRate
        IN /\ Len(blob) = HeaderBytes + N * C * 2
           /\ ReadUint(blob, 4, 4) = Len(blob) - 8
           /\ ReadUint(blob, 28, 4) = R * C * 2
           /\ ReadUint(blob, 32, 2) = C * 2
           /\ ReadUint(blob, 34, 2) = 16
           /\ ReadUint(blob, 40, 4) = N * C * 2

\* a stereo buffer at 44100 Hz, longer than the header, encoded
C16_Witness ==
    /\ blob # <<>>
    /\ audioBuffer.numberOfChannels = 2
    /\ audioBuffer.sampleRate = 44100
    /\ audioBuffer.length > HeaderBytes

---------------------------------------------------------------------------
(* exportAudio applied to a buffer and a RegionSet.                         *)

\* the members of a set of times in ascending order
RECURSIVE Ascending(_)
Ascending(T) ==
    IF T = {} THEN <<>>
    ELSE LET m == CHOOSE x \in T : \A y \in T : x <= y
         IN <<m>> \o Ascending(T \ {m})

\* the RegionSet whose region bounds are, in order, the times of T
PairUp(T) ==
    LET a == Ascending(T)
    IN [i \in 1..(Len(a) \div 2) |-> Region(a[2 * i - 1], a[2 * i])]

\* every sorted RegionSet on the grid with end < next start and start < end
RegionSets == {PairUp(T) : T \in {U \in SUBSET Times : Cardinality(U) % 2 = 0}}

ExportRates == {4, 8}

ExportBuffers ==
    {MakeBuffer(rate, frames, chans, w) :
        rate \in ExportRates, frames \in 1..MaxExportFrames, chans \in 1..MaxChannels,
        w \in 1..NumWaves}

InitExport ==
    /\ audioBuffer \in ExportBuffers
    /\ deletedRegions \in RegionSets
    /\ isProcessing = FALSE
    /\ tasks = <<>>
    /\ lastCall = NoCall
    /\ rendered = NoRender
    /\ blob = <<>>

Export ==
    /\ rendered' = Render(audioBuffer, deletedRegions)
    /\ blob' = exportAudio(audioBuffer, deletedRegions)
    /\ UNCHANGED <<audioBuffer, deletedRegions, isProcessing, tasks, lastCall>>

NextExport == Export

SpecExport == InitExport /\ [][NextExport]_vars

\* total time of a sequence of regions, each clipped to [0, D]
RECURSIVE ClippedTime(_, _)
ClippedTime(S, D) ==
    IF S = <<>> THEN 0
    ELSE Max(0, Min(Head(S).end, D) - Max(0, Min(Head(S).start, D)))
         + ClippedTime(Tail(S), D)

RECURSIVE TotalTime(_)
TotalTime(S) ==
    IF S = <<>> THEN 0 ELSE (Head(S).end - Head(S).start) + TotalTime(Tail(S))

\* C3: for any sorted, non-overlapping S and duration D (regions of S may
\* start at or extend past D), kept(S, D) is sorted, pairwise disjoint, lies
\* inside [0, D), and the kept time plus the time of S clipped to [0, D] is D.
C3_KeptIsComplement ==
    rendered.called =>
        LET kept == rendered.keptRegions
            D == Duration(audioBuffer)
        IN /\ Sorted(kept)
           /\ \A i \in 1..(Len(kept) - 1) : kept[i].end <= kept[i + 1].start
           /\ \A i \in 1..Len(kept) :
                  0 <= kept[i].start /\ kept[i].start < kept[i].end /\ kept[i].end <= D
           /\ TotalTime(kept) + ClippedTime(deletedRegions, D) = D

\* the sample index where kept region j begins in the output
RECURSIVE OutputBase(_, _, _)
OutputBase(keptRegions, sampleRate, j) ==
    IF j <= 1 THEN 0
    ELSE OutputBase(keptRegions, sampleRate, j - 1)
         + (ToSample(keptRegions[j - 1].end, sampleRate)
            - ToSample(keptRegions[j - 1].start, sampleRate))

\* C5: for every channel the rendered output is the in-order concatenation
\* of source[c][floor(start*rate) .. floor(end*rate) - 1] over the kept
\* regions, with no other samples.
C5_RenderIsConcatenation ==
    (rendered.called /\ ~rendered.threw) =>
        LET kept == rendered.keptRegions
            rate == audioBuffer.sampleRate
        IN \A c \in 1..audioBuffer.numberOfChannels :
              /\ Len(rendered.output[c]) = TotalSamples(kept, rate)
              /\ \A j \in 1..Len(kept) :
                     \A i \in ToSample(kept[j].start, rate)..(ToSample(kept[j].end, rate) - 1) :
                         /\ i < audioBuffer.length
                         /\ rendered.output[c][OutputBase(kept, rate, j)
                                                  + (i - ToSample(kept[j].start, rate)) + 1]
                                = getChannelData(audioBuffer, c - 1)[i + 1]

\* C6: the output length is the sum over the kept regions of
\* floor(end*rate) - floor(start*rate), and for every channel the final write
\* offset equals that length.
C6_SampleCount ==
    (rendered.called /\ ~rendered.threw) =>
        /\ rendered.totalSamples
              = TotalSamples(rendered.keptRegions, audioBuffer.sampleRate)
        /\ \A c \in 1..audioBuffer.numberOfChannels :
               /\ Len(rendered.output[c]) = rendered.totalSamples
               /\ rendered.offsets[c] = rendered.totalSamples

\* C17: during render, for every channel and every kept region, the write
\* offset plus the number of samples copied never exceeds the length of the
\* output: no write lands outside it and no out-of-bounds fault is raised,
\* for any RegionSet and buffer (regions past the end of the source included).
C17_WritesStayInside ==
    (rendered.called /\ rendered.totalSamples > 0) =>
        /\ ~rendered.rangeError
        /\ \A c \in 1..audioBuffer.numberOfChannels :
               /\ rendered.offsets[c] <= Len(rendered.output[c])
               /\ Len(rendered.output[c]) = rendered.totalSamples

\* a render of a stereo buffer with two kept regions, the first reaching
\* past the end of the source and the second starting past it
C17_Witness ==
    /\ rendered.called
    /\ rendered.totalSamples > 0
    /\ audioBuffer.numberOfChannels = 2
    /\ Len(rendered.keptRegions) = 2
    /\ ToSample(rendered.keptRegions[1].end, audioBuffer.sampleRate) > audioBuffer.length
    /\ ToSample(rendered.keptRegions[2].start, audioBuffer.sampleRate) > audioBuffer.length

\* C19: when the RegionSet covers the whole of [0, duration), so that
\* kept(S, D) is empty, render produces a zero-length buffer and the export
\* completes with a header-only encoding of 44 bytes; it is not an error.
C19_EmptyExport ==
    (rendered.called /\ rendered.keptRegions = <<>>) =>
        /\ ~rendered.threw
        /\ rendered.totalSamples = 0
        /\ Len(blob) = HeaderBytes

---------------------------------------------------------------------------
(* The detector.                                                            *)

AllZero(buffer) ==
    \A c \in 1..buffer.numberOfChannels : \A f \in 1..buffer.length : buffer.data[c][f] = 0

\* C20: detect on a buffer of all-zero samples of length
\* L >= minDuration + 2 * padding returns exactly one region,
\* [padding, L - padding]: Silent is entered at the first chunk and never
\* left, the trailing interval is closed at the end of the buffer, passes
\* the minDuration filter and is shrunk by the padding on both ends.
C20_DetectAllZero ==
    (/\ lastCall.op = "detect"
     /\ AllZero(audioBuffer)
     /\ Duration(audioBuffer) >= MinDuration + 2 * Padding)
        => lastCall.result = <<Region(Padding, Duration(audioBuffer) - Padding)>>

\* an all-zero stereo buffer of two whole chunks and a shorter third one
C20_Witness ==
    /\ lastCall.op = "detect"
    /\ AllZero(audioBuffer)
    /\ audioBuffer.numberOfChannels = 2
    /\ audioBuffer.length > 2 * ChunkSize
    /\ audioBuffer.length < 3 * ChunkSize
    /\ Len(lastCall.result) = 1

---------------------------------------------------------------------------
(* The editing session.                                                     *)

\* C7: after a new file is decoded and replaces the current buffer, the
\* session's RegionSet is empty, whatever was marked for the previous file.
C7_OpenResetsRegions ==
    [][(audioBuffer' # audioBuffer) => (deletedRegions' = <<>>)]_vars

\* C8: in every reachable state of a session (any sequence of add drags,
\* remove drags and auto-cuts, zero-width drags included) the RegionSet is
\* sorted by start, every consecutive pair satisfies end < next start, and
\* every region satisfies 0 <= start < end.
C8_SessionRegionSet ==
    /\ Sorted(deletedRegions)
    /\ Separated(deletedRegions)
    /\ NonEmpty(deletedRegions)

\* C21: a region-remove action of the session is exactly subtract: for every
\* reachable RegionSet S and all drag bounds (start, end) with start <= end,
\* the RegionSet after handleRegionRemove(start, end) is
\* subtractRegion(S, {start, end}); the exact-match filter that follows
\* never removes a region.
C21_RemoveIsSubtract ==
    [][\A row \in 0..MaxRow, downX \in DragXs, upX \in DragXs :
           DragRemove(row, downX, upX) =>
               deletedRegions' = subtractRegion(deletedRegions,
                                     DragRegion(audioBuffer, row, downX, upX))]_vars

\* deferred work is pending or running: a decode, a detection or export
\* timer, or a save awaited by an export
WorkPending == tasks # <<>>

\* C22: isProcessing is true whenever any deferred unit of work (a file
\* decode, an export including its save step, or a silence detection) is
\* pending or still running, under every interleaving of open, export and
\* auto-cut requests, and it returns to false only when no such work
\* remains.
C22_ProcessingWhileWorkPending ==
    /\ [](WorkPending => isProcessing)
    /\ [][(isProcessing /\ ~isProcessing') => ~WorkPending']_vars

=============================================================================
